---- MODULE Spec2Model ----
(***************************************************************************)
(* Breakthrough move generator (src/src/lib.rs): State<WIDTH, HEIGHT> with *)
(* two u64 bitboards `me` and `them`, Default::default, children, is_lost  *)
(* and the perft test driver.                                              *)
(*                                                                         *)
(* A u64 is modelled as the set of its set bit indices, a subset of        *)
(* 0..63: TLC's integers are 32 bits wide, so a 64-bit word cannot be an   *)
(* integer.  Shifts drop the bits that leave the word, exactly as the      *)
(* hardware does.                                                          *)
(***************************************************************************)
EXTENDS Integers, FiniteSets, Sequences

VARIABLES
    WIDTH,            \* const generic WIDTH of State<WIDTH, HEIGHT>
    HEIGHT,           \* const generic HEIGHT
    status,           \* "start": default() not yet called; "rejected": the
                      \* constants of this geometry fail to evaluate (the
                      \* program does not compile); "built": a State exists
    overflow_checks,  \* build profile: TRUE = overflow checks on (dev/test),
                      \* FALSE = wrapping arithmetic (release)
    me,               \* State.me
    them,             \* State.them
    panicked,         \* a panic unwound the calling thread
    op,               \* the last operation that completed
    parent_me,        \* `me` of the State the last children() was called on
    parent_them,      \* `them` of that State
    src,              \* index i of the source bit of the last move (flipped frame)
    dst,              \* index of the destination bit of the last move
    lost,             \* what is_lost() returned for this State: "true" or
                      \* "false", "?" while it has not been called
    ply,              \* number of children() steps taken so far
    stack,            \* perft: the pending calls, each [me, them, depth]
    count,            \* perft: the leaves summed so far
    depth0,           \* perft: the depth the test asked for
    scan_lsb          \* perft: BitIter's scan order, TRUE = lowest bit first

vars == <<WIDTH, HEIGHT, status, overflow_checks, me, them, panicked,
          op, parent_me, parent_them, src, dst, lost, ply, stack, count, depth0,
          scan_lsb>>

posVars == <<me, them, parent_me, parent_them, src, dst, lost, ply>>
perftVars == <<stack, count, depth0, scan_lsb>>
buildVars == <<WIDTH, HEIGHT, overflow_checks>>

----------------------------------------------------------------------------
(* Bounds of the model *)

MaxWidth == 3       \* small geometries have WIDTH in 0..MaxWidth
MaxHeight == 5      \* and HEIGHT in 3..MaxHeight
DeepArea == 10      \* boards of at most this many cells are played deep
MaxPly == 7         \* plies explored from default() on such a board
BigPly == 2         \* plies explored from default() on a larger board
MaxPieces == 3      \* pieces on the board of an arbitrary valid State
PlayArea == 12      \* play from default() is followed on boards of at most this many cells
FullArea == 8       \* and to the end of every chain on boards of at most this many cells

----------------------------------------------------------------------------
(* u64 words as sets of bit indices *)

U64_BITS == 64

Word == 0 .. (U64_BITS - 1)

\* x << k and x >> k on u64, 0 <= k < 64: bits shifted out of the word are lost
Shl(x, k) == {j + k : j \in x} \cap Word
Shr(x, k) == {j - k : j \in x} \cap Word

\* u64::reverse_bits
reverse_bits(x) == {U64_BITS - 1 - j : j \in x}

\* a ^ b, a & !b
Xor(a, b) == (a \ b) \cup (b \ a)
AndNot(a, b) == a \ b

----------------------------------------------------------------------------
(* Associated constants of State<WIDTH, HEIGHT> *)

\* mutant: the assert on HEIGHT is missing
AreaEvaluates_NoHeightAssert(w, h) == w * h <= U64_BITS

\* AREA's initializer evaluates: both asserts pass (the u32 product cannot
\* overflow for the geometries of the model)
AreaEvaluates(w, h) == h >= 4 /\ w * h <= U64_BITS

AREA(w, h) == w * h

\* the bit indices of the board's cells
Cells(w, h) == 0 .. (AREA(w, h) - 1)

\* ROW_MASK's initializer evaluates: WIDTH - 1 does not underflow and the
\* shift 1 << (WIDTH - 1) is in range
RowMaskEvaluates(w) == w - 1 >= 0 /\ w - 1 < U64_BITS

\* bit = 1 << (WIDTH - 1); (bit - 1) | bit
ROW_MASK(w) == LET bit == Shl({0}, w - 1)
                   bitMinus1 == {j \in Word : \A b \in bit : j < b}
               IN  bitMinus1 \cup bit

\* default() names ROW_MASK and AREA: the program compiles only if both evaluate
Compiles(w, h) == AreaEvaluates(w, h) /\ RowMaskEvaluates(w)

----------------------------------------------------------------------------
(* Default::default *)

default_me(w, h) == ROW_MASK(w) \cup Shl(ROW_MASK(w), w)

\* mutant: the opponent's rows are shifted one row short
default_them_OneRowShort(w, h) == Shl(default_me(w, h), AREA(w, h) - 3 * w)

default_them(w, h) == Shl(default_me(w, h), AREA(w, h) - 2 * w)

----------------------------------------------------------------------------
(* State::children *)

\* mutant: the reversed word is not re-aligned to the low AREA bits
flip_Unaligned(x, w, h) == reverse_bits(x)

\* x.reverse_bits() >> (u64::BITS - Self::AREA)
flip(x, w, h) == Shr(reverse_bits(x), U64_BITS - AREA(w, h))

\* self.them and self.me after the perspective flip at the top of children
flipped_them(m, t, w, h) == flip(m, w, h)
flipped_me(m, t, w, h) == flip(t, w, h)

\* i / WIDTH - 1 underflows u32 when the bit is in row 0 of the flipped frame
Underflows(i, w) == i \div w = 0

\* The shift amount (i / WIDTH - 1) * WIDTH with overflow checks off: the
\* subtraction and the product wrap modulo 2^32 and << takes its amount
\* modulo 64; 64 divides 2^32, so the amount is the integer value modulo 64.
\* Without underflow the value is below 64 and this is the value itself.
row_shift(i, w) == (((i \div w) - 1) * w) % U64_BITS

\* mutant: candidates are not confined to the row ahead
row_mask_AllRows(i, w) == Word

\* let row_mask = Self::ROW_MASK << (i / WIDTH - 1) * WIDTH
row_mask(i, w) == Shl(ROW_MASK(w), row_shift(i, w))

\* mutant: one of the two diagonal shifts is missing
diagonals_OneSide(i, w) == Shr({i}, w - 1)

\* let diagonals = bit >> WIDTH - 1 | bit >> WIDTH + 1
diagonals(i, w) == Shr({i}, w - 1) \cup Shr({i}, w + 1)

\* mutant: the straight candidate is not masked by the defending side
forward_Unmasked(i, fme, w) == Shr({i}, w)

\* let forward = bit >> WIDTH & !self.me
forward(i, fme, w) == AndNot(Shr({i}, w), fme)

\* mutant: candidates on the advancing side's own pieces are kept
move_mask_OntoOwn(i, fme, fthem, w) ==
    (forward(i, fme, w) \cup diagonals(i, w)) \cap row_mask(i, w)

\* let move_mask = (forward | diagonals) & !self.them & row_mask
move_mask(i, fme, fthem, w) ==
    AndNot(forward(i, fme, w) \cup diagonals(i, w), fthem) \cap row_mask(i, w)

\* let new_them = self.them ^ bit
new_them(i, fthem) == Xor(fthem, {i})

\* mutant: a captured piece is left on the board
child_me_NoCapture(i, d, fme) == fme

\* Self { me: self.me & !bit, them: new_them ^ bit }
child_me(i, d, fme) == AndNot(fme, {d})
\* mutant: the source bit is not cleared
child_them_KeepSource(i, d, fthem) == fthem \cup {d}

child_them(i, d, fthem) == Xor(new_them(i, fthem), {d})

\* The (source, destination) pairs the two nested BitIters of children yield
\* with overflow checks off, one child State for each
Moves(m, t, w, h) ==
    LET fme == flipped_me(m, t, w, h)
        fthem == flipped_them(m, t, w, h)
    IN  UNION {{<<i, d>> : d \in move_mask(i, fme, fthem, w)} : i \in fthem}

\* The set of States the iterator yields
ChildrenOf(m, t, w, h) ==
    LET fme == flipped_me(m, t, w, h)
        fthem == flipped_them(m, t, w, h)
    IN  {[me |-> child_me(mv[1], mv[2], fme),
          them |-> child_them(mv[1], mv[2], fthem)] : mv \in Moves(m, t, w, h)}

\* The closure of flat_map panics on a source bit whose row index is 0 when
\* overflow checks are on
PanicSources(m, t, w, h) ==
    {i \in flipped_them(m, t, w, h) : Underflows(i, w)}

----------------------------------------------------------------------------
(* State::is_lost *)

\* mutant: the mover's own set is tested
is_lost_OwnSet(m, t, w, h) == (m \cap ROW_MASK(w)) # {}

\* mutant: only the lowest bit of the row is tested
is_lost_LowBitOnly(m, t, w, h) == 0 \in t

\* mutant: the far row, row 0 of the frame before the flip, is tested
is_lost_StaleFrame(m, t, w, h) ==
    (t \cap Shl(ROW_MASK(w), AREA(w, h) - w)) # {}

\* self.them & Self::ROW_MASK != 0
is_lost(m, t, w, h) == (t \cap ROW_MASK(w)) # {}

----------------------------------------------------------------------------
(* Geometries and plies explored *)

\* the geometries the crate documentation and the tests name
DocGeometries == {<<6, 8>>, <<50, 50>>, <<14, 3>>, <<4, 16>>}

SmallGeometries == (0 .. MaxWidth) \X (3 .. MaxHeight)

Geometries == SmallGeometries \cup DocGeometries

PlyCap(w, h) == IF w * h <= DeepArea THEN MaxPly ELSE BigPly

----------------------------------------------------------------------------
(* Play from State::default() *)

Init ==
    /\ \E g \in Geometries : WIDTH = g[1] /\ HEIGHT = g[2]
    /\ status = "start"
    /\ overflow_checks \in BOOLEAN
    /\ me = {} /\ them = {}
    /\ panicked = FALSE
    /\ op = "none"
    /\ parent_me = {} /\ parent_them = {}
    /\ src = -1 /\ dst = -1
    /\ lost = "?"
    /\ ply = 0
    /\ stack = <<>> /\ count = 0 /\ depth0 = 0 /\ scan_lsb = TRUE

\* State::<WIDTH, HEIGHT>::default(): rejected at compile time when AREA or
\* ROW_MASK fails to evaluate, otherwise the starting State
Default ==
    /\ status = "start"
    /\ IF Compiles(WIDTH, HEIGHT)
       THEN /\ status' = "built"
            /\ me' = default_me(WIDTH, HEIGHT)
            /\ them' = default_them(WIDTH, HEIGHT)
            /\ op' = "default"
       ELSE /\ status' = "rejected"
            /\ UNCHANGED <<me, them, op>>
    /\ UNCHANGED <<buildVars, panicked, parent_me, parent_them, src, dst,
                   lost, ply, perftVars>>

\* The caller takes the child of source bit i and destination bit d from
\* self.children() and goes on with it.  With overflow checks on, the closure
\* panics on a source in row 0, so such a source yields nothing; the scan
\* order of BitIter decides whether the other sources are reached before it.
ChildrenStep(i, d, cap) ==
    /\ status = "built" /\ ~panicked
    /\ ply < cap
    /\ <<i, d>> \in Moves(me, them, WIDTH, HEIGHT)
    /\ overflow_checks => ~Underflows(i, WIDTH)
    /\ me' = child_me(i, d, flipped_me(me, them, WIDTH, HEIGHT))
    /\ them' = child_them(i, d, flipped_them(me, them, WIDTH, HEIGHT))
    /\ parent_me' = me /\ parent_them' = them
    /\ src' = i /\ dst' = d
    /\ op' = "children"
    /\ lost' = "?"
    /\ ply' = ply + 1
    /\ UNCHANGED <<buildVars, status, panicked, perftVars>>

Children ==
    \E mv \in Moves(me, them, WIDTH, HEIGHT) :
        ChildrenStep(mv[1], mv[2], PlyCap(WIDTH, HEIGHT))

\* Iterating self.children() reaches a source bit in row 0 with overflow
\* checks on: `i / WIDTH - 1` panics
PanicStep(cap) ==
    /\ status = "built" /\ ~panicked
    /\ ply < cap
    /\ overflow_checks
    /\ PanicSources(me, them, WIDTH, HEIGHT) # {}
    /\ panicked' = TRUE
    /\ UNCHANGED <<buildVars, status, me, them, op, parent_me, parent_them,
                   src, dst, lost, ply, perftVars>>

ChildrenPanic == PanicStep(PlyCap(WIDTH, HEIGHT))

\* self.is_lost()
IsLost ==
    /\ status = "built" /\ ~panicked
    /\ lost = "?"
    /\ lost' = IF is_lost(me, them, WIDTH, HEIGHT) THEN "true" ELSE "false"
    /\ UNCHANGED <<buildVars, status, me, them, panicked, op, parent_me,
                   parent_them, src, dst, ply, perftVars>>

Next == Default \/ Children \/ ChildrenPanic \/ IsLost

Spec == Init /\ [][Next]_vars

----------------------------------------------------------------------------
(* children and is_lost on an arbitrary structurally valid State *)

\* accepted geometries small enough to enumerate their States
AnyGeometries == {<<1, 4>>, <<2, 4>>, <<3, 4>>, <<1, 5>>, <<2, 5>>}

\* any State<WIDTH, HEIGHT> with me & them == 0, every bit within AREA and
\* at most MaxPieces pieces
InitAny ==
    /\ \E g \in AnyGeometries : WIDTH = g[1] /\ HEIGHT = g[2]
    /\ status = "built"
    /\ overflow_checks \in BOOLEAN
    /\ \E occ \in {x \in SUBSET Cells(WIDTH, HEIGHT) : Cardinality(x) <= MaxPieces} :
          \E m \in SUBSET occ : me = m /\ them = occ \ m
    /\ panicked = FALSE
    /\ op = "none"
    /\ parent_me = {} /\ parent_them = {}
    /\ src = -1 /\ dst = -1
    /\ lost = "?"
    /\ ply = 0
    /\ stack = <<>> /\ count = 0 /\ depth0 = 0 /\ scan_lsb = TRUE

\* one call of children on the State drawn: every valid State is drawn, so a
\* second call would start from a State that is drawn too
ChildrenAny ==
    \E mv \in Moves(me, them, WIDTH, HEIGHT) : ChildrenStep(mv[1], mv[2], 1)

ChildrenPanicAny == PanicStep(1)

NextAny == ChildrenAny \/ ChildrenPanicAny \/ IsLost

SpecAny == InitAny /\ [][NextAny]_vars

----------------------------------------------------------------------------
(* Whole games from State::default() on the boards small enough to play out *)

\* the longest chain of children steps the piece count allows: every piece
\* of both sides walks from its starting row to its far row
PliesBound(w, h) == 2 * w * (2 * h - 3)

PlayGeometries ==
    {g \in SmallGeometries : Compiles(g[1], g[2]) /\ g[1] * g[2] <= PlayArea}

\* plies followed: to the end of the game on the smaller boards (one ply more
\* than PliesBound, so that a longer chain would show)
PlayCap(w, h) == IF w * h <= FullArea THEN PliesBound(w, h) + 1 ELSE MaxPly

\* default() has not been called yet
InitStart ==
    /\ status = "start"
    /\ overflow_checks \in BOOLEAN
    /\ me = {} /\ them = {}
    /\ panicked = FALSE
    /\ op = "none"
    /\ parent_me = {} /\ parent_them = {}
    /\ src = -1 /\ dst = -1
    /\ lost = "?"
    /\ ply = 0
    /\ stack = <<>> /\ count = 0 /\ depth0 = 0 /\ scan_lsb = TRUE

InitPlay ==
    /\ \E g \in PlayGeometries : WIDTH = g[1] /\ HEIGHT = g[2]
    /\ InitStart

\* the boards on which every chain of moves, lost States included, is followed
InitFull ==
    /\ \E g \in PlayGeometries : WIDTH = g[1] /\ HEIGHT = g[2]
    /\ WIDTH * HEIGHT <= DeepArea
    /\ InitStart

\* any chain of children steps, as long as the iterator yields a child
ChildrenFull ==
    \E mv \in Moves(me, them, WIDTH, HEIGHT) :
        ChildrenStep(mv[1], mv[2], PlayCap(WIDTH, HEIGHT))

ChildrenPanicFull == PanicStep(PlayCap(WIDTH, HEIGHT))

NextFull == Default \/ ChildrenFull \/ ChildrenPanicFull \/ IsLost

SpecFull == InitFull /\ [][NextFull]_vars

\* a caller that asks is_lost() first and calls children only on a State
\* that is not lost; the overflow panic of such a call is the state predicate
\* PanicSources # {}, which C17 shows is never true along this play
ChildrenIfNotLost ==
    /\ lost = "false"
    /\ \E mv \in Moves(me, them, WIDTH, HEIGHT) :
          ChildrenStep(mv[1], mv[2], PlayCap(WIDTH, HEIGHT))

NextPlay == Default \/ ChildrenIfNotLost \/ IsLost

SpecPlay == InitPlay /\ [][NextPlay]_vars

----------------------------------------------------------------------------
(* tests::perft on the starting State of the 4x16 board *)

PerftDepth == 4

\* the set bits of a word in BitIter's scan order
RECURSIVE BitSeq(_, _)
BitSeq(x, lsb) ==
    IF x = {} THEN <<>>
    ELSE LET b == IF lsb THEN CHOOSE j \in x : \A k \in x : j <= k
                         ELSE CHOOSE j \in x : \A k \in x : j >= k
         IN  <<b>> \o BitSeq(x \ {b}, lsb)

\* BitIter::from(move_mask).map(..): the calls perft makes for the children
\* of source bit i, in scan order
InnerFrames(i, fme, fthem, w, lsb, depth) ==
    LET ds == BitSeq(move_mask(i, fme, fthem, w), lsb)
    IN  [k \in 1 .. Len(ds) |->
            [me |-> child_me(i, ds[k], fme),
             them |-> child_them(i, ds[k], fthem),
             depth |-> depth]]

\* BitIter::from(self.them).flat_map(..)
RECURSIVE FlatMap(_, _, _, _, _, _)
FlatMap(srcs, fme, fthem, w, lsb, depth) ==
    IF srcs = <<>> THEN <<>>
    ELSE InnerFrames(Head(srcs), fme, fthem, w, lsb, depth)
            \o FlatMap(Tail(srcs), fme, fthem, w, lsb, depth)

\* state.children().map(|state| perft(state, depth - 1)): the pending calls
ChildFrames(m, t, w, h, lsb, depth) ==
    LET fme == flipped_me(m, t, w, h)
        fthem == flipped_them(m, t, w, h)
    IN  FlatMap(BitSeq(fthem, lsb), fme, fthem, w, lsb, depth)

\* perft(State::<4, 16>::default(), depth0) has just been called
InitPerft ==
    /\ WIDTH = 4 /\ HEIGHT = 16
    /\ status = "built"
    /\ overflow_checks \in BOOLEAN
    /\ scan_lsb \in BOOLEAN
    /\ me = default_me(WIDTH, HEIGHT) /\ them = default_them(WIDTH, HEIGHT)
    /\ panicked = FALSE
    /\ op = "default"
    /\ parent_me = {} /\ parent_them = {}
    /\ src = -1 /\ dst = -1
    /\ lost = "?"
    /\ ply = 0
    /\ depth0 \in 1 .. PerftDepth
    /\ stack = <<[me |-> me, them |-> them, depth |-> depth0]>>
    /\ count = 0

\* if depth == 0 { 1 }
PerftLeaf ==
    /\ stack # <<>> /\ ~panicked
    /\ Head(stack).depth = 0
    /\ count' = count + 1
    /\ stack' = Tail(stack)
    /\ UNCHANGED <<buildVars, status, panicked, op, posVars, depth0, scan_lsb>>

\* else { state.children().map(|state| perft(state, depth - 1)).sum() }
\* (the closure of children does not panic: no source bit is in row 0)
PerftExpand ==
    /\ stack # <<>> /\ ~panicked
    /\ Head(stack).depth > 0
    /\ ~(overflow_checks /\
           PanicSources(Head(stack).me, Head(stack).them, WIDTH, HEIGHT) # {})
    /\ stack' = ChildFrames(Head(stack).me, Head(stack).them, WIDTH, HEIGHT,
                            scan_lsb, Head(stack).depth - 1) \o Tail(stack)
    /\ UNCHANGED <<buildVars, status, panicked, op, posVars, count, depth0, scan_lsb>>

NextPerft == PerftLeaf \/ PerftExpand

SpecPerft == InitPerft /\ [][NextPerft]_vars

----------------------------------------------------------------------------
(* Properties of the play from State::default() *)

\* C1: every State reachable from default() through children has
\* me & them == 0: no cell is occupied by both sides.
C1_Disjoint == status = "built" => me \cap them = {}

\* a child made by a capture: the destination was a cell of the defending side
C1_Witness ==
    /\ status = "built" /\ op = "children"
    /\ dst \in flip(parent_them, WIDTH, HEIGHT)
    /\ dst \in them

\* C2: every set bit of me and of them of every State reachable from
\* default() through children has its index in [0, AREA).
C2_WithinArea == status = "built" => (me \cup them) \subseteq Cells(WIDTH, HEIGHT)

\* a child, two plies deep, of a board smaller than the word whose last cell
\* is occupied
C2_Witness ==
    /\ status = "built" /\ op = "children" /\ ply >= 2
    /\ AREA(WIDTH, HEIGHT) < U64_BITS
    /\ (AREA(WIDTH, HEIGHT) - 1) \in (me \cup them)

\* C9 as stated: once default() has been tried, a State exists if and only
\* if HEIGHT >= 4 and WIDTH * HEIGHT <= 64.
C9_Original ==
    status # "start" =>
        (status = "built" <=> (HEIGHT >= 4 /\ WIDTH * HEIGHT <= U64_BITS))

\* C9, amended: once default() has been tried, a State exists if and only if
\* WIDTH >= 1, HEIGHT >= 4 and WIDTH * HEIGHT <= 64; while no State was
\* built no operation has produced one.
C9_Accepted ==
    /\ status # "start" =>
          (status = "built" <=>
              (WIDTH >= 1 /\ HEIGHT >= 4 /\ WIDTH * HEIGHT <= U64_BITS))
    /\ status # "built" => (op = "none" /\ ply = 0 /\ lost = "?" /\ ~panicked)

\* default() was tried on a geometry that is too short and was rejected
C9_Witness == status = "rejected" /\ HEIGHT < 4 /\ WIDTH * HEIGHT <= U64_BITS

\* C10: no child of the starting State is lost, whatever the geometry.
C10_NoLostChild ==
    (status = "built" /\ op = "children" /\ ply = 1) =>
        (~is_lost(me, them, WIDTH, HEIGHT) /\ lost # "true")

\* is_lost() answered for a child of the 6x8 starting State
C10_Witness ==
    /\ status = "built" /\ op = "children" /\ ply = 1
    /\ WIDTH = 6 /\ HEIGHT = 8
    /\ lost = "false"

----------------------------------------------------------------------------
(* The rules of Breakthrough on cell coordinates, in the mover's frame *)

Row(j, w) == j \div w
Col(j, w) == j % w

\* the board rotated by 180 degrees: (r, c) -> (HEIGHT-1-r, WIDTH-1-c)
Rotate(x, w, h) == {(h - 1 - Row(j, w)) * w + (w - 1 - Col(j, w)) : j \in x}

ValidState(m, t, w, h) == m \cap t = {} /\ (m \cup t) \subseteq Cells(w, h)

NoMoverOnLastRow(m, w, h) == \A j \in m : Row(j, w) # h - 1

\* the legal destinations of the mover's piece on cell s: straight ahead onto
\* an empty cell, diagonally ahead onto a cell not held by the mover
RuleDestinations(s, m, t, w, h) ==
    {d \in Cells(w, h) :
        /\ Row(d, w) = Row(s, w) + 1
        /\ \/ Col(d, w) = Col(s, w) /\ d \notin (m \cup t)
           \/ Col(d, w) = Col(s, w) + 1 /\ d \notin m
           \/ Col(d, w) = Col(s, w) - 1 /\ d \notin m}

\* the board after each legal move, rotated, with the two sides swapped
RuleChildren(m, t, w, h) ==
    UNION {{[me |-> Rotate(t \ {d}, w, h),
             them |-> Rotate((m \ {s}) \cup {d}, w, h)] :
                d \in RuleDestinations(s, m, t, w, h)} : s \in m}

\* source and destination of the last move as cells of the parent's frame
SrcCell == Rotate({src}, WIDTH, HEIGHT)
DstCell == Rotate({dst}, WIDTH, HEIGHT)

\* the mover's pieces after the last move, in the parent's frame
MovedSet == (parent_me \ SrcCell) \cup DstCell

----------------------------------------------------------------------------
(* Properties of children and is_lost on every valid State *)

\* C4: for a valid State with no mover piece on row HEIGHT-1, children
\* returns exactly the boards the rules of Breakthrough give, each rotated
\* by 180 degrees with the sides swapped: none is missing, none is extra,
\* and the child a caller takes from the iterator is one of them.
C4_ChildrenAreTheLegalMoves ==
    status = "built" =>
        /\ (ValidState(me, them, WIDTH, HEIGHT) /\ NoMoverOnLastRow(me, WIDTH, HEIGHT))
              => ChildrenOf(me, them, WIDTH, HEIGHT) = RuleChildren(me, them, WIDTH, HEIGHT)
        /\ (op = "children" /\ NoMoverOnLastRow(parent_me, WIDTH, HEIGHT))
              => [me |-> me, them |-> them]
                    \in RuleChildren(parent_me, parent_them, WIDTH, HEIGHT)

\* a capturing child was taken from a parent that also had a straight move
\* blocked by a piece
C4_Witness ==
    /\ status = "built" /\ op = "children"
    /\ NoMoverOnLastRow(parent_me, WIDTH, HEIGHT)
    /\ Cardinality(me) < Cardinality(parent_them)
    /\ \E s \in parent_me : (s + WIDTH) \in (parent_me \cup parent_them)

\* C5: a mover piece on row HEIGHT-1 (row 0 after the flip) contributes no
\* children: children does not fail on it, the row mask computed for it is
\* empty and so is its move mask.
C5_LastRowMaskIsEmpty ==
    status = "built" =>
        /\ ~panicked
        /\ \A i \in PanicSources(me, them, WIDTH, HEIGHT) :
              /\ row_mask(i, WIDTH) = {}
              /\ move_mask(i, flipped_me(me, them, WIDTH, HEIGHT),
                             flipped_them(me, them, WIDTH, HEIGHT), WIDTH) = {}

\* C6: children and is_lost never fail on a structurally valid State.
C6_NeverPanics == status = "built" => ~panicked

\* C7: the destination of every move lies in the row directly ahead of its
\* source, at most one column away, so no move crosses a board edge; the
\* board of the child differs from the parent's by exactly that move.
C7_NoWrap ==
    (status = "built" /\ op = "children") =>
        \E s \in parent_me : \E d \in Cells(WIDTH, HEIGHT) :
            /\ SrcCell = {s} /\ DstCell = {d}
            /\ Row(d, WIDTH) = Row(s, WIDTH) + 1
            /\ Col(d, WIDTH) - Col(s, WIDTH) \in {-1, 0, 1}
            /\ Rotate(them, WIDTH, HEIGHT) = (parent_me \ {s}) \cup {d}

\* a piece in the rightmost column moved diagonally while the leftmost cell
\* of the row two ahead, which the shift by WIDTH-1 reaches, was free
C7_Witness ==
    /\ status = "built" /\ op = "children" /\ WIDTH >= 2
    /\ \E s \in SrcCell :
          /\ Col(s, WIDTH) = WIDTH - 1
          /\ Row(s, WIDTH) + 2 < HEIGHT
          /\ (s + WIDTH + 1) \notin (parent_me \cup parent_them)
    /\ \E d \in DstCell : Col(d, WIDTH) = WIDTH - 2

\* C8: is_lost is true exactly when `them` has a bit among the low WIDTH
\* bits; for a child it is true exactly when the side that moved has, after
\* its move, a piece on row HEIGHT-1 of the parent's frame.
C8_IsLostCurrentFrame ==
    (status = "built" /\ lost # "?") =>
        /\ lost = "true" <=> (\E j \in them : j < WIDTH)
        /\ op = "children" =>
              (lost = "true" <=> (\E j \in MovedSet : Row(j, WIDTH) = HEIGHT - 1))

\* is_lost() returned true for a child whose moved piece reached the far row
C8_Witness ==
    /\ status = "built" /\ op = "children" /\ lost = "true"
    /\ \E d \in DstCell : Row(d, WIDTH) = HEIGHT - 1

----------------------------------------------------------------------------
(* Properties of perft *)

\* C3: perft from the starting State of the 4x16 board returns 10, 100, 1100
\* and 12100 at depths 1, 2, 3 and 4, in either scan order of the children.
C3_PerftCounts ==
    (depth0 >= 1 /\ stack = <<>>) =>
        count = CASE depth0 = 1 -> 10
                  [] depth0 = 2 -> 100
                  [] depth0 = 3 -> 1100
                  [] depth0 = 4 -> 12100
                  [] OTHER -> count

\* perft of depth 4 has returned after scanning from the highest bit
C3_Witness == depth0 = 4 /\ stack = <<>> /\ count > 0 /\ ~scan_lsb

----------------------------------------------------------------------------
(* Properties of the starting State *)

RowCells(r, w, h) == {j \in Cells(w, h) : Row(j, w) = r}

\* C11: default() puts the mover on exactly the cells of rows 0 and 1 and the
\* opponent on exactly the cells of rows HEIGHT-2 and HEIGHT-1; the two sets
\* are disjoint and the State is its own image under rotating the board by
\* 180 degrees and swapping the sides.
C11_DefaultLayout ==
    (status = "built" /\ op = "default") =>
        /\ me = RowCells(0, WIDTH, HEIGHT) \cup RowCells(1, WIDTH, HEIGHT)
        /\ them = RowCells(HEIGHT - 2, WIDTH, HEIGHT)
                     \cup RowCells(HEIGHT - 1, WIDTH, HEIGHT)
        /\ Cardinality(me) = 2 * WIDTH /\ Cardinality(them) = 2 * WIDTH
        /\ me \cap them = {}
        /\ Rotate(them, WIDTH, HEIGHT) = me
        /\ Rotate(me, WIDTH, HEIGHT) = them

\* default() returned on the board whose two sides are adjacent (HEIGHT = 4)
C11_Witness == status = "built" /\ op = "default" /\ HEIGHT = 4 /\ WIDTH = 3

----------------------------------------------------------------------------
(* Further properties of children on every valid State *)

\* the legal (source, destination) pairs of the rules, as cells of the
\* mover's frame
RuleMoves(m, t, w, h) ==
    UNION {{<<s, d>> : d \in RuleDestinations(s, m, t, w, h)} : s \in m}

\* the mover's set after the flip at the top of the last children call
ParentFlippedThem == flipped_them(parent_me, parent_them, WIDTH, HEIGHT)
ParentFlippedMe == flipped_me(parent_me, parent_them, WIDTH, HEIGHT)

\* C12: the children of a valid State are pairwise distinct: two different
\* (source, destination) pairs never give the same child, so when the call
\* completes the number of children is the number of legal pairs. (The
\* counts are compared on the States children is called on; every child is
\* such a State as well.)
C12_ChildrenDistinct ==
    (status = "built" /\ ValidState(me, them, WIDTH, HEIGHT)) =>
        /\ op = "none" =>
              /\ Cardinality(ChildrenOf(me, them, WIDTH, HEIGHT))
                    = Cardinality(Moves(me, them, WIDTH, HEIGHT))
              /\ Cardinality(Moves(me, them, WIDTH, HEIGHT))
                    = Cardinality(RuleMoves(me, them, WIDTH, HEIGHT))
        /\ op = "children" =>
              \A mv \in Moves(parent_me, parent_them, WIDTH, HEIGHT) :
                  (/\ child_me(mv[1], mv[2], ParentFlippedMe) = me
                   /\ child_them(mv[1], mv[2], ParentFlippedThem) = them)
                  => mv = <<src, dst>>

\* a child was taken from a parent in which two pieces could move to the
\* same cell
C12_Witness ==
    /\ status = "built" /\ op = "children"
    /\ \E mv \in Moves(parent_me, parent_them, WIDTH, HEIGHT) :
          mv[2] = dst /\ mv[1] # src

\* C14: a straight move never captures: it is made only onto a cell that
\* neither side holds and leaves the defending side's set unchanged; the
\* defending side loses a piece only by a diagonal move onto one of its
\* pieces, and then exactly that piece; the advancing side keeps its number
\* of pieces in every child.
C14_StraightNeverCaptures ==
    (status = "built" /\ op = "children") =>
        \E s \in SrcCell : \E d \in DstCell :
            /\ Col(d, WIDTH) = Col(s, WIDTH) =>
                  /\ d \notin (parent_me \cup parent_them)
                  /\ Rotate(me, WIDTH, HEIGHT) = parent_them
            /\ Rotate(me, WIDTH, HEIGHT) # parent_them =>
                  /\ Col(d, WIDTH) # Col(s, WIDTH)
                  /\ d \in parent_them
                  /\ Rotate(me, WIDTH, HEIGHT) = parent_them \ {d}
            /\ Cardinality(them) = Cardinality(parent_me)

\* a straight move was taken from a parent in which another mover piece was
\* blocked by a defending piece straight ahead of it
C14_Witness ==
    /\ status = "built" /\ op = "children"
    /\ \E s \in SrcCell : \E d \in DstCell :
          /\ Col(d, WIDTH) = Col(s, WIDTH)
          /\ \E s2 \in parent_me \ {s} : (s2 + WIDTH) \in parent_them

\* C15: no move ends on its own source, for every geometry including
\* WIDTH = 1: the advancing side's set of the child differs from its set
\* after the flip in exactly two bits, the source bit, cleared, and a
\* different destination bit, set.
C15_DestinationIsNotSource ==
    (status = "built" /\ op = "children") =>
        /\ src # dst
        /\ src \in ParentFlippedThem /\ dst \notin ParentFlippedThem
        /\ src \notin them /\ dst \in them
        /\ Xor(them, ParentFlippedThem) = {src, dst}

\* a move was made on a board one column wide, where bit >> WIDTH - 1 is the
\* source bit itself
C15_Witness == status = "built" /\ op = "children" /\ WIDTH = 1

\* C16: the flip at the top of children sends the cell (r, c) to
\* (HEIGHT-1-r, WIDTH-1-c), that is bit i to bit AREA-1-i, and swaps the
\* sides, for every geometry including AREA = 64; applied twice it gives
\* the State back.
C16_FlipIsRotation ==
    status = "built" =>
        /\ flipped_them(me, them, WIDTH, HEIGHT) = Rotate(me, WIDTH, HEIGHT)
        /\ flipped_me(me, them, WIDTH, HEIGHT) = Rotate(them, WIDTH, HEIGHT)
        /\ flipped_them(me, them, WIDTH, HEIGHT)
              = {AREA(WIDTH, HEIGHT) - 1 - j : j \in me}
        /\ flipped_me(me, them, WIDTH, HEIGHT)
              = {AREA(WIDTH, HEIGHT) - 1 - j : j \in them}
        /\ flipped_them(flipped_me(me, them, WIDTH, HEIGHT),
                        flipped_them(me, them, WIDTH, HEIGHT), WIDTH, HEIGHT) = them
        /\ flipped_me(flipped_me(me, them, WIDTH, HEIGHT),
                      flipped_them(me, them, WIDTH, HEIGHT), WIDTH, HEIGHT) = me
        /\ op = "children" =>
              /\ src \in Rotate(parent_me, WIDTH, HEIGHT)
              /\ AndNot(me, Rotate(parent_them, WIDTH, HEIGHT)) = {}

\* a child of a State that is not its own rotation, on a board narrower
\* than the word (the shift is by 64 - AREA > 0)
C16_Witness ==
    /\ status = "built" /\ op = "children" /\ ply >= 2
    /\ AREA(WIDTH, HEIGHT) < U64_BITS
    /\ Rotate(parent_me, WIDTH, HEIGHT) # parent_them

\* a child on the board that fills the word (the shift is by 0)
C16_WitnessFullWord ==
    /\ status = "built" /\ op = "children" /\ ply >= 2
    /\ AREA(WIDTH, HEIGHT) = U64_BITS

----------------------------------------------------------------------------
(* Properties of play that stops at a lost State *)

\* C17: along a play from the starting State that calls children only on
\* States for which is_lost answered false, the mover never has a piece on
\* row HEIGHT-1: every source bit index i of children has i / WIDTH >= 1 and
\* the subtraction i / WIDTH - 1 does not underflow, with overflow checks on
\* or off.
C17_CleanPlayNoUnderflow ==
    status = "built" =>
        /\ NoMoverOnLastRow(me, WIDTH, HEIGHT)
        /\ \A i \in flipped_them(me, them, WIDTH, HEIGHT) :
              i \div WIDTH >= 1 /\ ~Underflows(i, WIDTH)
        /\ PanicSources(me, them, WIDTH, HEIGHT) = {}
        /\ op = "children" => src \div WIDTH >= 1
        /\ ~panicked

\* a piece moved from the row next to the far row (i / WIDTH = 1, the
\* subtraction gives 0) and is_lost answered true for the child: play stops
C17_Witness ==
    /\ status = "built" /\ op = "children"
    /\ src \div WIDTH = 1
    /\ lost = "true"

\* the mover's pieces that no other piece of the mover is ahead of
MostAdvanced(m, w) == {s \in m : \A j \in m : Row(j, w) <= Row(s, w)}

\* the cells diagonally ahead of cell s that are on the board
DiagonalCells(s, w, h) ==
    {d \in Cells(w, h) :
        /\ Row(d, w) = Row(s, w) + 1
        /\ Col(d, w) - Col(s, w) \in {-1, 1}}

\* C18: for WIDTH >= 2, in every State of a play from the starting State
\* that calls children only on States that are not lost, children yields
\* nothing exactly when the mover has no piece: each most advanced piece of
\* the mover has a diagonal destination on the board that the mover does not
\* hold, and children yields the move to it.
C18_EmptyOnlyWithoutPieces ==
    (status = "built" /\ WIDTH >= 2) =>
        /\ (Moves(me, them, WIDTH, HEIGHT) = {}) <=> (me = {})
        /\ \A s \in MostAdvanced(me, WIDTH) :
              \E d \in DiagonalCells(s, WIDTH, HEIGHT) :
                  /\ d \notin me
                  /\ (AREA(WIDTH, HEIGHT) - 1 - d) \in
                        move_mask(AREA(WIDTH, HEIGHT) - 1 - s,
                                  flipped_me(me, them, WIDTH, HEIGHT),
                                  flipped_them(me, them, WIDTH, HEIGHT), WIDTH)

\* the last piece of the mover was captured: children yields nothing
C18_Witness ==
    /\ status = "built" /\ WIDTH >= 2 /\ op = "children"
    /\ me = {} /\ them # {}
    /\ Moves(me, them, WIDTH, HEIGHT) = {}

\* a State that is not lost in which the mover's only piece has one diagonal
\* destination on the board and the cell straight ahead is taken
C18_WitnessOneDiagonal ==
    /\ status = "built" /\ WIDTH >= 2 /\ lost = "false"
    /\ Cardinality(me) = 1
    /\ \A s \in me : /\ Cardinality(DiagonalCells(s, WIDTH, HEIGHT)) = 1
                      /\ (s + WIDTH) \in them

----------------------------------------------------------------------------
(* Termination of play *)

RECURSIVE Sum(_, _)
Sum(f, S) == IF S = {} THEN 0
             ELSE LET x == CHOOSE y \in S : TRUE
                  IN  f[x] + Sum(f, S \ {x})

\* the rows left to the far rank, summed over the pieces of both sides: the
\* mover walks to row HEIGHT-1 of the State's frame, the opponent to row 0
Potential(m, t, w, h) ==
    Sum([j \in m |-> h - 1 - Row(j, w)], m) + Sum([j \in t |-> Row(j, w)], t)

\* C19: every chain default = P0, P1 in children(P0), P2 in children(P1), ...
\* is finite: each move lowers the sum over all pieces of the rows left to
\* the piece's far rank, which is 2*WIDTH*(2*HEIGHT-3) at the start and never
\* negative, so a chain has at most 2*WIDTH*(2*HEIGHT-3) plies and no State
\* comes back with the same side to move.
C19_PlayTerminates ==
    status = "built" =>
        /\ Potential(me, them, WIDTH, HEIGHT) >= 0
        /\ ply = 0 => Potential(me, them, WIDTH, HEIGHT) = PliesBound(WIDTH, HEIGHT)
        /\ ply + Potential(me, them, WIDTH, HEIGHT) <= PliesBound(WIDTH, HEIGHT)
        /\ ply <= PliesBound(WIDTH, HEIGHT)
        /\ op = "children" =>
              /\ Potential(me, them, WIDTH, HEIGHT)
                    < Potential(parent_me, parent_them, WIDTH, HEIGHT)
              /\ <<me, them>> # <<parent_me, parent_them>>

\* a chain that went on past a lost State has come to its end: both sides
\* have pieces left and children yields nothing
C19_Witness ==
    /\ status = "built" /\ op = "children" /\ ply >= 4
    /\ me # {} /\ them # {}
    /\ ply < PlayCap(WIDTH, HEIGHT)
    /\ Moves(me, them, WIDTH, HEIGHT) = {}

\* a capture: the sum fell by more than one in a single move
C19_WitnessCapture ==
    /\ status = "built" /\ op = "children"
    /\ Potential(me, them, WIDTH, HEIGHT) + 1
          < Potential(parent_me, parent_them, WIDTH, HEIGHT)

====
